---- MODULE Spec2Model ----
(***************************************************************************)
(* Model of src/deflate.rs: the streaming Session `Deflate<W>` that drives *)
(* a zlib engine (deflateInit2_, deflateSetDictionary, deflate,            *)
(* deflateEnd) and writes the produced bytes to a sink `W: Write`.         *)
(*                                                                         *)
(* Engine output is modelled as numbered tokens: the k-th byte the engine  *)
(* ever produces is the token k, so loss, duplication and reordering in    *)
(* the sink are visible.  Machine integers are modelled with a scaled      *)
(* width (UintBits instead of 32) so that wrap-around stays reachable.     *)
(***************************************************************************)
EXTENDS Integers, Sequences, FiniteSets, TLC

\* ------------------------------------------------------------------ bounds

\* Width in bits of c_int / c_uint / u32 in the model (32 in the build).
UintBits == 5
\* Length of the scratch buffer of Deflate::deflate (32 * 1024 in the build).
BufLen == 2
\* Number of public operations performed on one Session.
MaxOps == 3
\* Units of coded data the engine keeps back before it emits a block unasked.
MaxHeld == 1

\* --------------------------------------------------------- zlib constants

Z_NO_FLUSH == 0
Z_PARTIAL_FLUSH == 1
Z_SYNC_FLUSH == 2
Z_FULL_FLUSH == 3
Z_FINISH == 4
Z_BLOCK == 5
Z_TREES == 6
Z_DEFAULT_COMPRESSION == -1

\* enum Flush
Flush == {Z_NO_FLUSH, Z_PARTIAL_FLUSH, Z_SYNC_FLUSH, Z_FULL_FLUSH,
          Z_FINISH, Z_BLOCK, Z_TREES}

\* ------------------------------------------------------- machine integers

UMod == 2 ^ UintBits

\* `x as c_int` for an unsigned x: wraps to the signed range.
AsCInt(x) == LET m == x % UMod IN IF m >= UMod \div 2 THEN m - UMod ELSE m

\* `x as c_uint` for a usize x: keeps the low UintBits bits.
AsCUint(x) == x % UMod

Min(a, b) == IF a < b THEN a ELSE b

\* ------------------------------------------------------------ io::Result

Ok == [kind |-> "Ok", msg |-> ""]

\* fn invalid_input(payload)
invalid_input(payload) == [kind |-> "InvalidInput", msg |-> payload]

\* fn other(payload)
other(payload) == [kind |-> "Other", msg |-> payload]

\* an error of the sink, passed on by `?`
IoErr == [kind |-> "Io", msg |-> "sink"]

\* an index-out-of-bounds panic
Panic == [kind |-> "Panic", msg |-> "index out of bounds"]

\* the call has not returned yet
Pending == [kind |-> "Pending", msg |-> ""]

IsOk(r) == r.kind = "Ok"

\* ------------------------------------------------------- OptionsBuilder

\* OptionsBuilder::new: options.level
DefaultLevel == Z_DEFAULT_COMPRESSION

\* OptionsBuilder::set_level: self.options.level = level as c_int
SetLevel(level) == AsCInt(level)

\* Values a caller passes to set_level (a u32): the top of the accepted
\* range, the first value above it, and the values that wrap when stored.
Levels == {9, 10, UMod \div 2, UMod - 1}

\* ------------------------------------------------------------- the engine
\* zlib behind the four foreign entry points.  Every entry point returns a
\* set of possible outcomes: the status zlib's contract gives in the state
\* at hand, and the statuses of the engine's status domain that the caller
\* cannot exclude (out of memory, a library of another version, an
\* unexpected status).

\* Levels deflateInit2_ accepts: Z_DEFAULT_COMPRESSION and 0..9.
AcceptedLevels == {Z_DEFAULT_COMPRESSION} \cup (0 .. 9)

\* The z_stream state before deflateInit2_ (mem::zeroed()).
ZeroedEngine == [est |-> "zero", pend |-> 0, held |-> 0, last_flush |-> 0,
                 total_out |-> 0]

\* last_flush after deflateReset: Z_NO_FLUSH up to zlib 1.2.11, -2 since.
ResetLastFlush == {Z_NO_FLUSH, -2}

\* deflateInit2_(&mut stream, level, ...): the version token is checked
\* first, then the parameters, then the state is allocated.
EngineInit(e, level) ==
    {[ret |-> "Z_VERSION_ERROR", e |-> e]}
    \cup (IF level \notin AcceptedLevels
          THEN {[ret |-> "Z_STREAM_ERROR", e |-> e]}
          ELSE {[ret |-> "Z_MEM_ERROR", e |-> e], [ret |-> "Z_ERRNO", e |-> e]}
               \cup {[ret |-> "Z_OK",
                      e |-> [est |-> "init", pend |-> 0, held |-> 0,
                             last_flush |-> lf, total_out |-> 0]]
                     : lf \in ResetLastFlush})

\* The engine holds allocated state.
EngineLive(e) == e.est \in {"init", "busy", "finish", "ended"}

\* deflateSetDictionary(&mut stream, dict, len): accepted only before the
\* first deflate call of a zlib stream.
EngineSetDictionary(e) ==
    {[ret |-> "Z_ERRNO", e |-> e]}
    \cup (IF e.est = "init" THEN {[ret |-> "Z_OK", e |-> e]}
          ELSE {[ret |-> "Z_STREAM_ERROR", e |-> e]})

\* deflateEnd(&mut stream): frees the state; Z_DATA_ERROR when the stream
\* was freed in the middle of a stream (status BUSY_STATE).
EngineEnd(e) ==
    {[ret |-> "Z_STREAM_ERROR", e |-> e], [ret |-> "Z_ERRNO", e |-> e]}
    \cup (IF EngineLive(e)
          THEN {[ret |-> IF e.est = "busy" THEN "Z_DATA_ERROR" ELSE "Z_OK",
                 e |-> [e EXCEPT !.est = "freed"]]}
          ELSE {})

\* RANK(f) of zlib's deflate.c: the order of the flush values.
Rank(f) == 2 * f - (IF f > 4 THEN 9 ELSE 0)

\* An engine call that fails: nothing is consumed, nothing is produced.
StepFail(e, ain, status) == [ret |-> status, e |-> e, ain |-> ain, out |-> 0]

\* One deflate() call that got past the parameter checks with the pending
\* output copied out and room left in the output buffer (`space` > 0 bytes,
\* `n1` already used).  The engine consumes `c` of the `ain` input bytes.
\* What it consumed joins the data it holds back; a flush (or a full
\* internal block) turns the held data into output, followed by the flush
\* marker or, on Z_FINISH, by the final block and the stream trailer.
EngineRun(e, ain, f, n1, c) ==
    LET space   == BufLen - n1
        hdr     == IF e.est = "init" THEN 1 ELSE 0
        ending  == e.est \in {"finish", "ended"}
        held1   == e.held + (IF c > 0 THEN 1 ELSE 0)
        all     == c = ain
        flushes == all /\ f # Z_NO_FLUSH /\ ~ending
        marker  == IF f = Z_BLOCK THEN 0 ELSE IF f = Z_FINISH THEN 2 ELSE 1
        gen     == IF flushes THEN held1 + marker
                   ELSE IF ~all \/ held1 > MaxHeld THEN held1
                   ELSE 0
        heldN   == IF gen > 0 \/ flushes THEN 0 ELSE held1
        total   == hdr + gen
        n2      == Min(total, space)
        pendN   == total - n2
        outN    == n1 + n2
        fin     == all /\ f = Z_FINISH
        retN    == IF fin /\ pendN = 0 THEN "Z_STREAM_END" ELSE "Z_OK"
        estN    == IF fin THEN (IF pendN = 0 THEN "ended" ELSE "finish")
                   ELSE "busy"
        lastN   == IF retN = "Z_OK" /\ outN = BufLen THEN -1 ELSE f
    IN  [ret |-> retN,
         e   |-> [est |-> estN, pend |-> pendN, held |-> heldN,
                  last_flush |-> lastN, total_out |-> e.total_out + outN],
         ain |-> ain - c,
         out |-> outN]

\* The engine stops consuming input only when the output buffer is full.
EngineMayStopAt(e, ain, n1, c) ==
    \/ c = ain
    \/ /\ c < ain
       /\ (IF e.est = "init" THEN 1 ELSE 0) + e.held + 1 >= BufLen - n1

\* deflate(&mut stream, flush) with avail_in = ain, avail_out = BufLen:
\* the possible outcomes [ret, e, ain, out], `out` the number of bytes put
\* into the output buffer (avail_out = BufLen - out afterwards).
EngineStep(e, ain, f) ==
    {StepFail(e, ain, "Z_ERRNO")}
    \cup
    IF ~EngineLive(e) \/ f > Z_BLOCK \/ f < 0
       \/ (e.est \in {"finish", "ended"} /\ f # Z_FINISH)
    THEN {StepFail(e, ain, "Z_STREAM_ERROR")}
    ELSE
    LET e0 == [e EXCEPT !.last_flush = f]
        n1 == Min(e.pend, BufLen)
    IN  IF e.pend > 0 /\ n1 = BufLen
        THEN {[ret |-> "Z_OK",
               e   |-> [e EXCEPT !.pend = @ - n1, !.total_out = @ + n1,
                                 !.last_flush = -1],
               ain |-> ain, out |-> n1]}
        ELSE IF e.pend = 0 /\ ain = 0 /\ Rank(f) <= Rank(e.last_flush)
                /\ f # Z_FINISH
        THEN {StepFail(e0, ain, "Z_BUF_ERROR")}
        ELSE IF e.est \in {"finish", "ended"} /\ ain # 0
        THEN {StepFail(e0, ain, "Z_BUF_ERROR")}
        ELSE {EngineRun([e0 EXCEPT !.pend = 0], ain, f, n1, c)
              : c \in {k \in {1, ain} : k <= ain /\ EngineMayStopAt(e, ain, n1, k)}}

\* ------------------------------------------------------------- the sink

\* self.output.write_all(bytes): appends all the bytes, or fails having
\* appended a proper prefix of them; an empty slice is never a failure.
SinkWriteAll(out, bytes) ==
    {[ok |-> TRUE, sink |-> out \o bytes]}
    \cup {[ok |-> FALSE, sink |-> out \o SubSeq(bytes, 1, k)]
          : k \in 0 .. (Len(bytes) - 1)}

\* ------------------------------------------------------------------ state

VARIABLES
    pc,           \* "build": OptionsBuilder; "idle": between calls;
                  \* "loop": inside the loop of deflate(); "done": consumed
    level,        \* options.level
    level_set,    \* set_level was called on the builder
    level_arg,    \* the value last passed to set_level
    initialized,  \* Deflate.initialized
    finished,     \* Deflate.finished
    avail_in,     \* stream.avail_in
    avail_out,    \* stream.avail_out
    eng,          \* the engine's state behind `stream`
    buffer,       \* the scratch buffer of deflate()
    sink,         \* the bytes the Writer has received
    flush,        \* argument of the write call in progress (or the last one)
    data_len,     \* data.len() of that call
    eaten,        \* input bytes the engine consumed during that call
    mark,         \* Len(sink) and eng.total_out when that call started
    res,          \* the last call and what it returned
    returned,     \* finish() gave the Writer back
    ops,          \* number of calls made on the Session
    opcalls,      \* engine entry points invoked by the last call
    initOk,       \* successful deflateInit2_ calls so far
    ends,         \* deflateEnd calls so far
    erred,        \* some write or set_dictionary call returned an error
    whole,        \* the engine consumed every slice a write returned Ok for
    plain         \* every write before the last one used NoFlush

vars == <<pc, level, level_set, level_arg, initialized, finished, avail_in,
          avail_out, eng, buffer, sink, flush, data_len, eaten, mark, res,
          returned, ops, opcalls, initOk, ends, erred, whole, plain>>

\* The fields of the Session and of its Writer.
session == <<level, initialized, finished, avail_in, avail_out, eng, sink>>

\* What one call did to the engine: how often it invoked each entry point,
\* and the status of its last deflateInit2_, deflateSetDictionary and
\* deflate and of its deflateEnd.
NoCalls == [init |-> 0, dict |-> 0, step |-> 0, end |-> 0,
            iret |-> "none", dret |-> "none", sret |-> "none",
            eret |-> "none"]

\* The engine calls of a call whose init() left the state st.
CallsOfInit(st) == [NoCalls EXCEPT !.init = st.ninit, !.iret = st.ret]

Result(op, r) == [op |-> op, kind |-> r.kind, msg |-> r.msg]

\* Lengths of the slices a caller passes: empty, short, and one that does
\* not fit the engine's c_uint counters.
DataLens == {0, 2, UMod + 1}

DictLens == {0, 1, 2}

\* OptionsBuilder::new()
Init ==
    /\ pc = "build"
    /\ level = DefaultLevel
    /\ level_set = FALSE
    /\ level_arg = 0
    /\ initialized = FALSE
    /\ finished = FALSE
    /\ avail_in = 0
    /\ avail_out = 0
    /\ eng = ZeroedEngine
    /\ buffer = [i \in 1 .. BufLen |-> 0]
    /\ sink = << >>
    /\ flush = Z_NO_FLUSH
    /\ data_len = 0
    /\ eaten = 0
    /\ mark = [sink |-> 0, out |-> 0]
    /\ res = Result("new", Ok)
    /\ returned = FALSE
    /\ ops = 0
    /\ opcalls = NoCalls
    /\ initOk = 0
    /\ ends = 0
    /\ erred = FALSE
    /\ whole = TRUE
    /\ plain = TRUE

\* OptionsBuilder::set_level(level)
BuilderSetLevel ==
    /\ pc = "build"
    /\ \E v \in Levels :
        /\ level' = SetLevel(v)
        /\ level_arg' = v
    /\ level_set' = TRUE
    /\ UNCHANGED <<pc, initialized, finished, avail_in, avail_out, eng, buffer,
                   sink, flush, data_len, eaten, mark, res, returned, ops,
                   opcalls, initOk, ends, erred, whole, plain>>

\* OptionsBuilder::finish() and Deflate::new(options, w)
New ==
    /\ pc = "build"
    /\ pc' = "idle"
    /\ initialized' = FALSE
    /\ finished' = FALSE
    /\ eng' = ZeroedEngine
    /\ UNCHANGED <<level, level_set, level_arg, avail_in, avail_out, buffer,
                   sink, flush, data_len, eaten, mark, res, returned, ops,
                   opcalls, initOk, ends, erred, whole, plain>>

\* ------------------------------------------------------- Deflate::init

\* Variant: init() without the `if self.initialized` guard.
InitCallsEngine_Always(init) == TRUE

\* init(): `if self.initialized { Ok(()) } else { deflateInit2_(...) }`
InitCallsEngine(init) == ~init

\* Variant: `self.initialized = true` set before the status is matched.
InitializedAfter_Eager(init, ret) == TRUE

\* init(): `self.initialized = true` in the Z_OK arm only
InitializedAfter(init, ret) == IF ret = "Z_OK" THEN TRUE ELSE init

\* init(): `match ret`
InitResult(ret) ==
    CASE ret = "Z_OK"            -> Ok
      [] ret = "Z_MEM_ERROR"     -> other("Out of memory")
      [] ret = "Z_STREAM_ERROR"  -> invalid_input("Invalid parameter")
      [] ret = "Z_VERSION_ERROR" -> invalid_input("Incompatible version of zlib")
      [] OTHER                   -> other("Unexpected error")

\* The part of the state init() reads and writes, and what it counts.
InitState == [initialized |-> initialized, eng |-> eng, ninit |-> 0,
              initOk |-> initOk, ret |-> "none"]

\* init() from the state st: the states it can leave and what it returns.
InitOutcomes(st) ==
    IF ~InitCallsEngine(st.initialized)
    THEN {[st |-> st, r |-> Ok]}
    ELSE {[st |-> [initialized |-> InitializedAfter(st.initialized, o.ret),
                   eng |-> o.e,
                   ninit |-> st.ninit + 1,
                   initOk |-> st.initOk + (IF o.ret = "Z_OK" THEN 1 ELSE 0),
                   ret |-> o.ret],
           r |-> InitResult(o.ret)]
          : o \in EngineInit(st.eng, level)}

\* Variant: the result of init() is dropped instead of propagated.
Propagates_Never(r) == FALSE

\* `expr?`: an Err ends the calling function with that error.
Propagates(r) == ~IsOk(r)

\* pub fn init(&mut self)
InitCall ==
    /\ pc = "idle"
    /\ ops < MaxOps
    /\ \E o \in InitOutcomes(InitState) :
        /\ initialized' = o.st.initialized
        /\ eng' = o.st.eng
        /\ initOk' = o.st.initOk
        /\ opcalls' = CallsOfInit(o.st)
        /\ res' = Result("init", o.r)
    /\ ops' = ops + 1
    /\ UNCHANGED <<pc, level, level_set, level_arg, finished, avail_in,
                   avail_out, buffer, sink, flush, data_len, eaten, mark,
                   returned, ends, erred, whole, plain>>

\* ---------------------------------------------- Deflate::set_dictionary

\* set_dictionary(): `match ret`
SetDictionaryResult(ret) ==
    CASE ret = "Z_OK"           -> Ok
      [] ret = "Z_STREAM_ERROR" -> invalid_input("Invalid parameter")
      [] OTHER                  -> other("Unexpected error")

\* set_dictionary(): `&dict[0]` is evaluated before the engine is called
DictIndexPanics(dlen) == dlen = 0

\* pub fn set_dictionary(&mut self, dict: &[u8])
SetDictionary ==
    /\ pc = "idle"
    /\ ops < MaxOps
    /\ \E dlen \in DictLens, o \in InitOutcomes(InitState) :
        /\ initialized' = o.st.initialized
        /\ initOk' = o.st.initOk
        /\ IF Propagates(o.r)
           THEN /\ eng' = o.st.eng
                /\ opcalls' = CallsOfInit(o.st)
                /\ res' = Result("set_dictionary", o.r)
           ELSE IF DictIndexPanics(dlen)
           THEN /\ eng' = o.st.eng
                /\ opcalls' = CallsOfInit(o.st)
                /\ res' = Result("set_dictionary", Panic)
           ELSE \E d \in EngineSetDictionary(o.st.eng) :
                /\ eng' = d.e
                /\ opcalls' = [CallsOfInit(o.st) EXCEPT !.dict = 1, !.dret = d.ret]
                /\ res' = Result("set_dictionary", SetDictionaryResult(d.ret))
    /\ erred' = (erred \/ res'.kind # "Ok")
    /\ ops' = ops + 1
    /\ UNCHANGED <<pc, level, level_set, level_arg, finished, avail_in,
                   avail_out, buffer, sink, flush, data_len, eaten, mark,
                   returned, ends, whole, plain>>

\* ------------------------------------------- Deflate::write / deflate

\* deflate(): `self.stream.avail_in = data.len() as c_uint`
PresentedLen(dlen) == AsCUint(dlen)

\* deflate(): `self.stream.avail_out = buffer.len() as c_uint`
FullAvailOut == AsCUint(BufLen)

\* Variant: `write_all(&buffer)`, the whole scratch buffer every time.
WrittenEnd_Full(aout) == BufLen

\* deflate(): `let end = buffer.len() - self.stream.avail_out as usize`
WrittenEnd(aout) == BufLen - aout

\* deflate(): the Z_OK | Z_STREAM_END arm writes to the sink (Output::Write)
WritesOutput(ret) == ret \in {"Z_OK", "Z_STREAM_END"}

\* Variant: `continue` on every Z_OK, whatever space is left.
LoopContinues_OnOk(ret, aout) == ret = "Z_OK"

\* deflate(): `if self.stream.avail_out == 0 { continue }` in the Z_OK arm
LoopContinues(ret, aout) == ret = "Z_OK" /\ aout = 0

\* Variant: `self.finished = (ret == Z_STREAM_END)` for every status.
FinishedAfter_Assign(fin, ret) == ret = "Z_STREAM_END"

\* deflate(): `self.finished = true` in the Z_STREAM_END arm only
FinishedAfter(fin, ret) == IF ret = "Z_STREAM_END" THEN TRUE ELSE fin

\* Variant: Z_BUF_ERROR taken as "nothing to do" and reported as success.
DeflateResult_BufOk(ret) ==
    CASE ret \in {"Z_OK", "Z_STREAM_END", "Z_BUF_ERROR"} -> Ok
      [] ret = "Z_STREAM_ERROR" -> invalid_input("Inconsistent stream state")
      [] OTHER                  -> other("Unexpected error")

\* deflate(): what the loop returns for a status that ends it
DeflateResult(ret) ==
    CASE ret \in {"Z_OK", "Z_STREAM_END"} -> Ok
      [] ret = "Z_STREAM_ERROR" -> invalid_input("Inconsistent stream state")
      [] ret = "Z_BUF_ERROR"    -> other("No progress possible")
      [] OTHER                  -> other("Unexpected error")

\* pub fn write(&mut self, data, flush): init()?, then deflate() up to its
\* loop: init()? again, the input region, the scratch buffer.
Write ==
    /\ pc = "idle"
    /\ ops < MaxOps
    /\ \E dlen \in DataLens, f \in Flush, o1 \in InitOutcomes(InitState) :
        IF Propagates(o1.r)
        THEN /\ initialized' = o1.st.initialized
             /\ eng' = o1.st.eng
             /\ initOk' = o1.st.initOk
             /\ opcalls' = CallsOfInit(o1.st)
             /\ res' = Result("write", o1.r)
             /\ erred' = TRUE
             /\ UNCHANGED <<pc, avail_in, buffer, flush, data_len, eaten, mark>>
        ELSE \E o2 \in InitOutcomes(o1.st) :
             /\ initialized' = o2.st.initialized
             /\ eng' = o2.st.eng
             /\ initOk' = o2.st.initOk
             /\ opcalls' = CallsOfInit(o2.st)
             /\ IF Propagates(o2.r)
                THEN /\ res' = Result("write", o2.r)
                     /\ erred' = TRUE
                     /\ UNCHANGED <<pc, avail_in, buffer, flush, data_len,
                                    eaten, mark>>
                ELSE /\ avail_in' = PresentedLen(dlen)
                     /\ buffer' = [i \in 1 .. BufLen |-> 0]
                     /\ flush' = f
                     /\ data_len' = dlen
                     /\ eaten' = 0
                     /\ mark' = [sink |-> Len(sink), out |-> o2.st.eng.total_out]
                     /\ res' = Result("write", Pending)
                     /\ pc' = "loop"
                     /\ UNCHANGED erred
    /\ ops' = ops + 1
    /\ plain' = IF pc' = "loop" THEN plain /\ flush = Z_NO_FLUSH ELSE plain
    /\ UNCHANGED <<level, level_set, level_arg, finished, avail_out, sink,
                   returned, ends, whole>>

\* Variant: the input region is presented again in every iteration.
StepInput_Represented(ain, dlen) == PresentedLen(dlen)

\* deflate(): the loop leaves stream.next_in / avail_in to the engine
StepInput(ain, dlen) == ain

\* Variant: `self.finished = true` ahead of the write to the sink.
FinishedOnSinkError_Early(fin, ret) == FinishedAfter(fin, ret)

\* deflate(): `write_all(..)?` returns before the inner `match ret`
FinishedOnSinkError(fin, ret) == fin

\* One iteration of the loop of deflate(): the output cursor is reset, the
\* engine steps, the bytes it produced go to the sink, and the status decides
\* between another iteration and a return.
Loop ==
    /\ pc = "loop"
    /\ \E o \in EngineStep(eng, StepInput(avail_in, data_len), flush) :
        LET aout  == FullAvailOut - o.out
            buf   == [i \in 1 .. BufLen |->
                        IF i <= o.out THEN eng.total_out + i ELSE buffer[i]]
            bytes == SubSeq(buf, 1, WrittenEnd(aout))
            took  == eaten + (StepInput(avail_in, data_len) - o.ain)
        IN  /\ eng' = o.e
            /\ avail_in' = o.ain
            /\ avail_out' = aout
            /\ buffer' = buf
            /\ eaten' = took
            /\ opcalls' = [opcalls EXCEPT !.step = @ + 1, !.sret = o.ret]
            /\ IF WritesOutput(o.ret)
               THEN \E w \in SinkWriteAll(sink, bytes) :
                    /\ sink' = w.sink
                    /\ IF ~w.ok
                       THEN /\ finished' = FinishedOnSinkError(finished, o.ret)
                            /\ res' = Result("write", IoErr)
                            /\ pc' = "idle"
                            /\ erred' = TRUE
                            /\ UNCHANGED whole
                       ELSE IF LoopContinues(o.ret, aout)
                       THEN UNCHANGED <<res, pc, erred, finished, whole>>
                       ELSE /\ finished' = FinishedAfter(finished, o.ret)
                            /\ res' = Result("write", DeflateResult(o.ret))
                            /\ pc' = "idle"
                            /\ whole' = (whole /\ took = data_len)
                            /\ UNCHANGED erred
               ELSE /\ finished' = FinishedAfter(finished, o.ret)
                    /\ res' = Result("write", DeflateResult(o.ret))
                    /\ pc' = "idle"
                    /\ erred' = TRUE
                    /\ UNCHANGED <<sink, whole>>
    /\ UNCHANGED <<level, level_set, level_arg, initialized, flush, data_len,
                   mark, returned, ops, initOk, ends, plain>>

\* ----------------------------------------------------- Deflate::finish

\* Variant: deflateEnd only for a stream that has ended.
FinishCallsEnd_WhenFinished(init) == init /\ finished

\* Variant: deflateEnd without the `if self.initialized` guard.
FinishCallsEnd_Always(init) == TRUE

\* finish(): `if self.initialized { ... deflateEnd ... } else { Ok(self.output) }`
FinishCallsEnd(init) == init

\* Variant: the arm `Z_STREAM_ERROR => Err(invalid_input(...))` that the
\* source keeps commented out.
FinishResult_Strict(ret) ==
    CASE ret = "Z_OK"           -> Ok
      [] ret = "Z_STREAM_ERROR" -> invalid_input("Inconsistent stream state")
      [] ret = "Z_DATA_ERROR"   -> invalid_input("Stream freed early")
      [] OTHER                  -> other("Unexpected error")

\* Variant: Z_DATA_ERROR (stream freed with work pending) taken as success.
FinishResult_Lenient(ret) ==
    CASE ret \in {"Z_OK", "Z_STREAM_ERROR", "Z_DATA_ERROR"} -> Ok
      [] OTHER                  -> other("Unexpected error")

\* finish(): `match ret`
FinishResult(ret) ==
    CASE ret = "Z_OK"           -> Ok
      [] ret = "Z_STREAM_ERROR" -> Ok
      [] ret = "Z_DATA_ERROR"   -> invalid_input("Stream freed early")
      [] OTHER                  -> other("Unexpected error")

\* Variant: finish(&mut self), which leaves the Session usable.
AfterFinish_Borrowed == "idle"

\* finish(mut self) takes the Session by value: no call can follow it.
AfterFinish == "done"

\* pub fn finish(mut self) -> io::Result<W>
Finish ==
    /\ pc = "idle"
    /\ ops <= MaxOps
    /\ IF FinishCallsEnd(initialized)
       THEN \E o \in EngineEnd(eng) :
            /\ eng' = o.e
            /\ res' = Result("finish", FinishResult(o.ret))
            /\ opcalls' = [NoCalls EXCEPT !.end = 1, !.eret = o.ret]
            /\ ends' = ends + 1
       ELSE /\ res' = Result("finish", Ok)
            /\ opcalls' = NoCalls
            /\ UNCHANGED <<eng, ends>>
    /\ returned' = (res'.kind = "Ok")
    /\ pc' = AfterFinish
    /\ ops' = ops + 1
    /\ UNCHANGED <<level, level_set, level_arg, initialized, finished,
                   avail_in, avail_out, buffer, sink, flush, data_len, eaten,
                   mark, initOk, erred, whole, plain>>

Next ==
    \/ BuilderSetLevel
    \/ New
    \/ InitCall
    \/ SetDictionary
    \/ Write
    \/ Loop
    \/ Finish

Spec == Init /\ [][Next]_vars

\* deflate() runs to completion once called: the loop is not suspended.
FairSpec == Spec /\ WF_vars(Loop)

\* ----------------------------------------------------------- properties

\* A step that starts a public call on the Session.
CallStarts == ops' # ops

\* C1: over any sequence of init(), set_dictionary() and write() calls the
\* engine's init entry point succeeds at most once; once `initialized` is
\* true no call invokes it again, and a direct init() returns success and
\* changes no field of the Session.
C1_InitOnce ==
    /\ [](initOk <= 1)
    /\ [][(initialized /\ CallStarts) =>
            /\ opcalls'.init = 0
            /\ initOk' = initOk
            /\ (res'.op = "init" =>
                  /\ res'.kind = "Ok"
                  /\ UNCHANGED session)]_vars

\* C1 witness: a direct init() on an initialized Session has returned.
C1_Witness ==
    /\ initialized /\ initOk = 1
    /\ res.op = "init" /\ res.kind = "Ok" /\ opcalls.init = 0

\* C2: the engine's step, set-dictionary and release entry points are only
\* invoked when `initialized` is true, which is only after an engine init
\* that returned Z_OK; a write() or set_dictionary() whose init() fails
\* returns the error of that init and invokes no other entry point.
C2_EngineOnlyAfterInit ==
    /\ [](initialized => initOk >= 1)
    /\ [][/\ (opcalls' # opcalls
               /\ opcalls'.step + opcalls'.dict + opcalls'.end > 0)
             => initialized'
          /\ (CallStarts /\ res'.op \in {"write", "set_dictionary"}
                /\ ~initialized')
             => /\ opcalls'.step + opcalls'.dict + opcalls'.end = 0
                /\ opcalls'.init >= 1
                /\ res' = Result(res'.op, InitResult(opcalls'.iret))
                /\ res'.kind \in {"InvalidInput", "Other"}
                /\ pc' = "idle"]_vars
    /\ [](pc = "loop" => initialized /\ EngineLive(eng))

\* C2 witness: a write() has returned the error of its failed init().
C2_Witness ==
    /\ res.op = "write" /\ ~initialized /\ res.kind = "InvalidInput"
    /\ opcalls.init = 1 /\ opcalls.step = 0

\* C3: finish() consumes the Session: after it nothing happens to the
\* Session any more, so deflateEnd is invoked at most once and no entry
\* point of the engine is invoked after it.
C3_FinishConsumes ==
    /\ [](ends <= 1)
    /\ [][pc # "done"]_vars
    /\ [](res.op = "finish" => pc = "done")

\* C3 witness: finish() has released the engine.
C3_Witness == pc = "done" /\ ends = 1 /\ eng.est = "freed"

\* C4: `finished` starts false and never goes back from true to false,
\* whatever the later calls return.
C4_FinishedMonotonic ==
    /\ [](ops = 0 => ~finished)
    /\ [][finished => finished']_vars

\* C4 witness: a write() on a finished Session has failed.
C4_Witness ==
    /\ finished /\ res.op = "write" /\ res.kind = "InvalidInput"
    /\ opcalls.step = 1

\* The last call was a write() and it returned Ok.
WriteReturnedOk == pc = "idle" /\ res.op = "write" /\ res.kind = "Ok"

\* The sink received, after what it held when the call started, exactly the
\* bytes the engine produced during the call, in the order of production.
SinkHasCallOutput ==
    /\ Len(sink) - mark.sink = eng.total_out - mark.out
    /\ \A i \in 1 .. (eng.total_out - mark.out) :
          sink[mark.sink + i] = mark.out + i

\* C5: whenever write(data, flush) returns success the engine has consumed
\* the whole `data` slice, its available input is zero, and every byte it
\* produced during the call is in the sink.
C5_WriteConsumesAll ==
    WriteReturnedOk =>
        /\ avail_in = 0
        /\ eaten = data_len
        /\ SinkHasCallOutput

\* The same for slices whose length fits a c_uint.
WriteConsumesAllThatFits ==
    (WriteReturnedOk /\ data_len < UMod) =>
        /\ avail_in = 0
        /\ eaten = data_len
        /\ SinkHasCallOutput

\* A write() of a non-empty slice has returned Ok after several iterations.
WriteReturnedOkAfterLoop ==
    WriteReturnedOk /\ data_len > 0 /\ opcalls.step > 1

\* A step that is a call of finish().
FinishStep == pc = "idle" /\ CallStarts /\ res'.op = "finish"

\* C6: finish() on a Session whose `initialized` is true invokes deflateEnd
\* exactly once, whatever `finished` is, whatever the last flush was and
\* whether or not an earlier call failed; it invokes nothing else.
C6_FinishReleases ==
    [][(FinishStep /\ initialized) =>
          /\ ends' = ends + 1
          /\ opcalls' = [NoCalls EXCEPT !.end = 1, !.eret = opcalls'.eret]
          /\ opcalls'.eret # "none"]_vars

\* C6 witness: finish() has called deflateEnd on a Session that is not
\* finished and on which an earlier call failed.
C6_Witness ==
    /\ pc = "done" /\ initialized /\ ~finished /\ erred
    /\ flush # Z_FINISH /\ opcalls.end = 1 /\ ends = 1

\* C7: finish() on a Session that was never initialized returns the Writer
\* as it is: no engine entry point is invoked, the sink gets no byte.
C7_FinishUninitialized ==
    [][(FinishStep /\ ~initialized) =>
          /\ res' = Result("finish", Ok)
          /\ returned'
          /\ opcalls' = NoCalls
          /\ UNCHANGED <<eng, sink, initOk, ends>>]_vars

\* C7 witness: finish() as the only call on the Session.
C7_Witness ==
    /\ pc = "done" /\ ops = 1 /\ ~initialized /\ returned
    /\ eng = ZeroedEngine /\ sink = << >>

\* C8: the outcome of finish() on an initialized Session is a function of
\* the status of deflateEnd: Z_OK and Z_STREAM_ERROR return the Writer,
\* Z_DATA_ERROR is InvalidInput "Stream freed early", any other status is
\* Other "Unexpected error"; the Writer is returned in the first two only.
C8_FinishOutcome ==
    (res.op = "finish" /\ initialized) =>
        /\ opcalls.eret # "none"
        /\ opcalls.eret \in {"Z_OK", "Z_STREAM_ERROR"}
              => res = Result("finish", Ok) /\ returned
        /\ opcalls.eret = "Z_DATA_ERROR"
              => /\ res = Result("finish", invalid_input("Stream freed early"))
                 /\ ~returned
        /\ opcalls.eret \notin {"Z_OK", "Z_STREAM_ERROR", "Z_DATA_ERROR"}
              => /\ res = Result("finish", other("Unexpected error"))
                 /\ ~returned

\* C8 witness: deflateEnd reported Z_STREAM_ERROR and finish() returned the
\* Writer.
C8_Witness ==
    /\ res.op = "finish" /\ initialized
    /\ opcalls.eret = "Z_STREAM_ERROR" /\ returned

\* What init() makes of the status of deflateInit2_, but for the message of
\* Z_VERSION_ERROR.
InitMapsStatus(versionMsg) ==
    (res.op = "init" /\ opcalls.init > 0) =>
        /\ opcalls.init = 1
        /\ initialized <=> opcalls.iret = "Z_OK"
        /\ res = Result("init",
             CASE opcalls.iret = "Z_OK" -> Ok
               [] opcalls.iret = "Z_MEM_ERROR" -> other("Out of memory")
               [] opcalls.iret = "Z_STREAM_ERROR"
                     -> invalid_input("Invalid parameter")
               [] opcalls.iret = "Z_VERSION_ERROR" -> invalid_input(versionMsg)
               [] OTHER -> other("Unexpected error"))

\* C9 as stated: init() on an uninitialized Session maps Z_OK to success
\* with `initialized = true`, Z_MEM_ERROR to Other "Out of memory",
\* Z_STREAM_ERROR to InvalidInput "Invalid parameter", Z_VERSION_ERROR to
\* InvalidInput "Incompatible version", any other status to Other
\* "Unexpected error"; `initialized` stays false on every failing status.
C9_InitMapping_AsStated == InitMapsStatus("Incompatible version")

\* C9 as amended: the same, with the message the code gives for
\* Z_VERSION_ERROR, "Incompatible version of zlib".
C9_InitMapping == InitMapsStatus("Incompatible version of zlib")

\* C9 witness: init() has failed on Z_VERSION_ERROR.
C9_Witness ==
    /\ res.op = "init" /\ opcalls.iret = "Z_VERSION_ERROR"
    /\ res.kind = "InvalidInput" /\ ~initialized

\* C10: for every value passed to set_level outside the levels the engine
\* accepts, the init() of a write fails with an InvalidInput error: the
\* Session is never initialized and no write gets further than init().
C10_LevelOutOfRangeFails ==
    (level_set /\ level_arg \notin AcceptedLevels /\ res.op = "write") =>
        /\ ~initialized
        /\ res.kind = "InvalidInput"

\* The same for the values whose stored level is outside the accepted range.
StoredLevelOutOfRangeFails ==
    (level \notin AcceptedLevels /\ res.op = "write") =>
        /\ ~initialized
        /\ res.kind = "InvalidInput"

\* A write() on a Session built with such a value has failed in init().
StoredLevelOutOfRangeWrite ==
    /\ level_set /\ level \notin AcceptedLevels
    /\ res.op = "write" /\ opcalls.iret = "Z_STREAM_ERROR"

\* A step that is one iteration of the loop of deflate().
LoopStep == pc = "loop" /\ opcalls'.step = opcalls.step + 1

\* C11: write(data, Flush::NoFlush) with an empty `data` returns success at
\* any point after a successful init and before a Flush::Finish has been
\* requested of the engine (the engine reporting nothing but what its
\* documentation gives for the call).
C11_EmptyWriteSucceeds ==
    ( /\ pc = "idle" /\ res.op = "write"
      /\ data_len = 0 /\ flush = Z_NO_FLUSH
      /\ opcalls.step > 0 /\ eng.est \in {"init", "busy"}
      /\ opcalls.sret # "Z_ERRNO" )
        => res.kind \in {"Ok", "Io"}

\* An empty NoFlush write that fails has been told Z_BUF_ERROR by the engine
\* and returns Other "No progress possible".
EmptyWriteFailsOnBufError ==
    ( /\ pc = "idle" /\ res.op = "write"
      /\ data_len = 0 /\ flush = Z_NO_FLUSH
      /\ opcalls.step > 0 /\ eng.est \in {"init", "busy"}
      /\ opcalls.sret # "Z_ERRNO"
      /\ res.kind \notin {"Ok", "Io"} )
        => /\ opcalls.sret = "Z_BUF_ERROR"
           /\ res = Result("write", other("No progress possible"))

\* An empty NoFlush write has returned Other "No progress possible".
EmptyWriteHasFailed ==
    /\ pc = "idle" /\ res.op = "write" /\ data_len = 0 /\ flush = Z_NO_FLUSH
    /\ res.msg = "No progress possible"

\* C12: set_dictionary(dict) never aborts before it reaches the engine: it
\* runs init() and passes its failure on; otherwise it calls
\* deflateSetDictionary, for an empty `dict` as well, and maps Z_OK to
\* success, Z_STREAM_ERROR to InvalidInput "Invalid parameter" and any other
\* status to Other "Unexpected error".
C12_SetDictionaryReachesEngine ==
    res.op = "set_dictionary" =>
        IF opcalls.iret \in {"none", "Z_OK"}
        THEN /\ opcalls.dict = 1
             /\ res = Result("set_dictionary",
                  CASE opcalls.dret = "Z_OK" -> Ok
                    [] opcalls.dret = "Z_STREAM_ERROR"
                          -> invalid_input("Invalid parameter")
                    [] OTHER -> other("Unexpected error"))
        ELSE /\ opcalls.dict = 0
             /\ res = Result("set_dictionary", InitResult(opcalls.iret))

\* The same for the calls that did not panic on `&dict[0]`.
SetDictionaryMapsStatus ==
    (res.op = "set_dictionary" /\ res.kind # "Panic")
        => C12_SetDictionaryReachesEngine

\* set_dictionary() has panicked after a successful init(), with no call of
\* deflateSetDictionary.
SetDictionaryHasPanicked ==
    /\ res.op = "set_dictionary" /\ res.kind = "Panic"
    /\ initialized /\ opcalls.dict = 0

C14_RoundTrip ==
    (pc = "done" /\ returned /\ ~erred /\ plain /\ flush = Z_FINISH /\ finished)
        => /\ whole
           /\ Len(sink) = eng.total_out
           /\ \A i \in 1 .. Len(sink) : sink[i] = i

\* The same for slices whose length fits a c_uint.
RoundTripThatFits ==
    ( /\ pc = "done" /\ returned /\ ~erred /\ plain /\ flush = Z_FINISH
      /\ finished /\ whole )
        => /\ Len(sink) = eng.total_out
           /\ \A i \in 1 .. Len(sink) : sink[i] = i

\* A NoFlush write, a Finish write and finish() have all succeeded, and the
\* engine consumed every slice whole.
RoundTripDone ==
    /\ pc = "done" /\ returned /\ ~erred /\ plain /\ flush = Z_FINISH
    /\ finished /\ whole /\ ops = 3 /\ Len(sink) > BufLen

\* The same calls have all succeeded though a slice was not consumed whole.
RoundTripTruncated ==
    /\ pc = "done" /\ returned /\ ~erred /\ plain /\ flush = Z_FINISH
    /\ finished /\ ~whole

\* What C15 says of one iteration of the loop whose sink write, if any,
\* satisfies sinkOk: the engine made progress and left no output space
\* (the loop steps again with the same flush on the same input region,
\* neither presented again nor advanced by the Session); it made progress
\* and left space (the call returns success, `finished` unchanged); the
\* stream ended (`finished` becomes true, the call returns success).
LoopControl(sinkOk) ==
    LoopStep =>
      /\ (opcalls'.sret = "Z_OK" /\ avail_out' = 0 /\ sinkOk) =>
            /\ pc' = "loop" /\ res' = res
            /\ flush' = flush /\ data_len' = data_len
            /\ avail_in' + eaten' = PresentedLen(data_len)
            /\ avail_in' <= avail_in
            /\ finished' = finished
      /\ (opcalls'.sret = "Z_OK" /\ avail_out' > 0 /\ sinkOk) =>
            /\ pc' = "idle" /\ res' = Result("write", Ok)
            /\ finished' = finished
      /\ (opcalls'.sret = "Z_STREAM_END" /\ sinkOk) =>
            /\ pc' = "idle" /\ res' = Result("write", Ok)
            /\ finished'

\* `finished` becomes true in an iteration that ended the stream, only.
FinishedOnlyOnStreamEnd ==
    (finished' /\ ~finished) => (LoopStep /\ opcalls'.sret = "Z_STREAM_END")

\* C15 as stated: the three cases of LoopControl for every iteration, and
\* `finished` set to true in no other way.
C15_LoopControl_AsStated ==
    /\ [][LoopControl(TRUE)]_vars
    /\ [][FinishedOnlyOnStreamEnd]_vars

\* C15 as amended: the three cases of LoopControl for every iteration whose
\* bytes the sink accepted, and `finished` set to true in no other way; when
\* the sink fails, the call returns the I/O error with `finished` unchanged,
\* whatever the engine reported.
C15_LoopControl ==
    /\ [][LoopControl(res'.kind # "Io")]_vars
    /\ [][FinishedOnlyOnStreamEnd]_vars
    /\ [][(LoopStep /\ res'.kind = "Io")
            => (pc' = "idle" /\ finished' = finished)]_vars

\* C15 witness: the loop is about to step again with input left, after an
\* iteration that consumed some.
C15_Witness ==
    /\ pc = "loop" /\ opcalls.step >= 1
    /\ avail_in > 0 /\ eaten > 0 /\ avail_out = 0

\* C16: every iteration starts with the full scratch buffer as output
\* space, and after a step that made progress exactly the bytes the engine
\* produced in that iteration, buflen - avail_out of them, go to the sink
\* before the next step: at every point of a write call the sink holds,
\* after what it held at the start, the bytes produced during the call in
\* the order of production, each once, and all of them unless the sink
\* has failed.
C16_OutputWrittenOnce ==
    /\ [][(LoopStep /\ WritesOutput(opcalls'.sret) /\ res'.kind # "Io") =>
            /\ BufLen - avail_out' = eng'.total_out - eng.total_out
            /\ sink' = sink \o [i \in 1 .. (BufLen - avail_out')
                                  |-> eng.total_out + i]]_vars
    /\ []((res.op = "write" /\ res.kind \in {"Pending", "Ok"})
            => SinkHasCallOutput)
    /\ []((res.op = "write" /\ res.kind = "Io") =>
            /\ Len(sink) - mark.sink < eng.total_out - mark.out
            /\ \A i \in 1 .. (Len(sink) - mark.sink) :
                  sink[mark.sink + i] = mark.out + i)

\* C16 witness: a write has returned success after three iterations or more,
\* each of the first two having filled the scratch buffer.
C16_Witness ==
    /\ WriteReturnedOk /\ opcalls.step >= 3
    /\ Len(sink) - mark.sink > 2 * BufLen
    /\ SinkHasCallOutput

\* C17: a step that reports anything but Z_OK or Z_STREAM_END ends the write
\* call with the error of its status: Z_STREAM_ERROR gives InvalidInput
\* "Inconsistent stream state", Z_BUF_ERROR gives Other "No progress
\* possible", any other status Other "Unexpected error"; nothing goes to
\* the sink in that iteration, no further step is taken and `finished` is
\* unchanged.
C17_ErrorStatusEndsWrite ==
    [][(LoopStep /\ opcalls'.sret \notin {"Z_OK", "Z_STREAM_END"}) =>
          /\ pc' = "idle"
          /\ sink' = sink
          /\ finished' = finished
          /\ res' = Result("write",
               CASE opcalls'.sret = "Z_STREAM_ERROR"
                      -> invalid_input("Inconsistent stream state")
                 [] opcalls'.sret = "Z_BUF_ERROR"
                      -> other("No progress possible")
                 [] OTHER -> other("Unexpected error"))]_vars

\* C17 witness: a write call after one that produced output has ended on
\* Z_BUF_ERROR with nothing more in the sink.
C17_Witness ==
    /\ pc = "idle" /\ res.op = "write"
    /\ opcalls.sret = "Z_BUF_ERROR"
    /\ res = Result("write", other("No progress possible"))
    /\ mark.sink > 0 /\ Len(sink) = mark.sink

\* What is left for the loop of deflate() to do: the input the engine has
\* not taken, weighted by the most output one unit of it can leave pending,
\* the output the engine holds, and the stages it has yet to pass.
LoopVariant ==
    (MaxHeld + 3) * avail_in + eng.pend + eng.held
        + (IF eng.est = "init" THEN 1 ELSE 0)
        + (IF eng.est \in {"init", "busy"} THEN 1 ELSE 0)

\* C18: every write call terminates: with an engine that holds a finite
\* amount of pending output and a scratch buffer larger than a flush
\* marker, each iteration that goes round again leaves less to do, and the
\* loop returns, also when the output is an exact multiple of the buffer
\* length.
C18_WriteTerminates ==
    /\ [](LoopVariant >= 0)
    /\ [][(LoopStep /\ pc' = "loop") => LoopVariant' < LoopVariant]_vars
    /\ (pc = "loop") ~> (pc = "idle")

\* C18 witness: a write has returned after three iterations, the output of
\* the call being an exact multiple of the buffer length.
C18_Witness ==
    /\ pc = "idle" /\ res.op = "write" /\ res.kind = "Ok"
    /\ opcalls.step = 3
    /\ eng.total_out - mark.out = 2 * BufLen
    /\ avail_out = BufLen

\* C19: the available input presented to the engine at the start of a write
\* call equals the length of the caller's slice.
C19_PresentedIsSliceLength ==
    (pc = "loop" /\ opcalls.step = 0) => avail_in = data_len

\* The same for the slices whose length fits a c_uint.
PresentedIsSliceLengthThatFits ==
    (pc = "loop" /\ opcalls.step = 0 /\ data_len < UMod) => avail_in = data_len

\* A write has presented less input than the slice holds.
PresentedTruncated ==
    pc = "loop" /\ opcalls.step = 0 /\ avail_in < data_len

\* C20: a failure of the sink ends the write call with the I/O error before
\* any further step; `finished` is set to true only after the sink write of
\* the iteration that ended the stream has succeeded, so it stays as it was
\* when that write fails.
C20_SinkFailureEndsWrite ==
    /\ [][(LoopStep /\ res'.kind = "Io") =>
            /\ pc' = "idle"
            /\ res' = Result("write", IoErr)
            /\ WritesOutput(opcalls'.sret)
            /\ finished' = finished]_vars
    /\ [][(finished' /\ ~finished) =>
            /\ res' = Result("write", Ok)
            /\ SinkHasCallOutput']_vars
    /\ [][(pc = "idle" /\ res.op = "write" /\ res.kind = "Io")
            => opcalls'.step <= opcalls.step \/ CallStarts]_vars

\* C20 witness: the sink failed in the iteration in which the engine ended
\* the stream; the call returned the I/O error and `finished` is false.
C20_Witness ==
    /\ pc = "idle" /\ res = Result("write", IoErr)
    /\ opcalls.sret = "Z_STREAM_END" /\ eng.est = "ended"
    /\ ~finished

====
